---- MODULE Spec2Model ----
(***************************************************************************)
(* Model of the script generation pipeline of src/script_generator.py:     *)
(* ScriptGenerator.generate_script and the text functions it calls.        *)
(*                                                                         *)
(* A text is a sequence of characters; a character is a TLA+ string.  The  *)
(* characters that have no one-letter spelling carry a name: "DANDA" is    *)
(* U+0964, "ZWSP" is U+200B and "FFFD" is U+FFFD.                          *)
(***************************************************************************)
EXTENDS Integers, Sequences, FiniteSets, TLC

(***************************************************************************)
(* Characters and the str methods the code uses.                           *)
(***************************************************************************)

\* str.isspace(), the whitespace of str.split()/strip() and of the regex \s
SpaceChars == {" ", "\n", "\t", "\r"}

IsSpace(c) == c \in SpaceChars

DigitChars == {"0", "1", "2", "3", "4", "5", "6", "7", "8", "9"}

IsDigit(c) == c \in DigitChars

LowerLetters ==
  <<"a", "b", "c", "d", "e", "f", "g", "h", "i", "j", "k", "l", "m",
    "n", "o", "p", "q", "r", "s", "t", "u", "v", "w", "x", "y", "z">>

UpperLetters ==
  <<"A", "B", "C", "D", "E", "F", "G", "H", "I", "J", "K", "L", "M",
    "N", "O", "P", "Q", "R", "S", "T", "U", "V", "W", "X", "Y", "Z">>

IsLower(c) == \E i \in DOMAIN LowerLetters : LowerLetters[i] = c

IsUpper(c) == \E i \in DOMAIN UpperLetters : UpperLetters[i] = c

\* the regex class \w
WordChars ==
  {LowerLetters[i] : i \in DOMAIN LowerLetters} \cup {UpperLetters[i] : i \in DOMAIN UpperLetters}
    \cup DigitChars \cup {"_"}

IsWordChar(c) == c \in WordChars

LowerChar(c) ==
  IF IsUpper(c)
  THEN LowerLetters[CHOOSE i \in DOMAIN UpperLetters : UpperLetters[i] = c]
  ELSE c

UpperChar(c) ==
  IF IsLower(c)
  THEN UpperLetters[CHOOSE i \in DOMAIN LowerLetters : LowerLetters[i] = c]
  ELSE c

\* str.lower() and str.upper()
Lower(s) == [i \in DOMAIN s |-> LowerChar(s[i])]

Upper(s) == [i \in DOMAIN s |-> UpperChar(s[i])]

\* int() of a digit
DigitVal(c) == CHOOSE d \in 0..9 : ToString(d) = c

\* n copies of the text w
Rep(w, n) == [i \in 1..(n * Len(w)) |-> w[((i - 1) % Len(w)) + 1]]

\* a text with the characters marked "" removed
IsKept(c) == c # ""

DropMarked(s) == SelectSeq(s, IsKept)

\* seq.startswith(p)
StartsWith(s, p) == Len(p) <= Len(s) /\ SubSeq(s, 1, Len(p)) = p

\* the index of the first character of s at or after i that is outside the
\* set of characters class, Len(s) + 1 when there is none
RunEnd(s, i, class) ==
  IF \E j \in i..Len(s) : s[j] \notin class
  THEN CHOOSE j \in i..Len(s) : s[j] \notin class /\ \A k \in i..(j - 1) : s[k] \in class
  ELSE Len(s) + 1

\* str.lstrip(), str.rstrip(), str.strip()
LStrip(s) == SubSeq(s, RunEnd(s, 1, SpaceChars), Len(s))

RStrip(s) ==
  IF \A i \in DOMAIN s : IsSpace(s[i])
  THEN <<>>
  ELSE SubSeq(s, 1, CHOOSE i \in DOMAIN s :
                      ~IsSpace(s[i]) /\ \A j \in (i + 1)..Len(s) : IsSpace(s[j]))

Strip(s) == LStrip(RStrip(s))

\* the positions where a word of s.split() starts, and where one ends
WordStarts(s) == {i \in DOMAIN s : ~IsSpace(s[i]) /\ (i = 1 \/ IsSpace(s[i - 1]))}

WordEnds(s) == {i \in DOMAIN s : ~IsSpace(s[i]) /\ (i = Len(s) \/ IsSpace(s[i + 1]))}

\* len(s.split())
WordCount(s) == Cardinality(WordStarts(s))

\* the k-th smallest member of the set S of positions of lo..hi, by bisection
RECURSIVE KthIn(_, _, _, _)
KthIn(S, k, lo, hi) ==
  IF lo = hi
  THEN lo
  ELSE LET mid == (lo + hi) \div 2
           below == Cardinality({i \in S : i >= lo /\ i <= mid})
       IN IF k <= below THEN KthIn(S, k, lo, mid) ELSE KthIn(S, k - below, mid + 1, hi)

\* s.split(): the words of s, in order
Split(s) ==
  LET st == WordStarts(s)
      en == WordEnds(s)
  IN [k \in 1..Cardinality(st) |->
        SubSeq(s, KthIn(st, k, 1, Len(s)), KthIn(en, k, 1, Len(s)))]

\* " ".join(s.split()): the words of s separated by single spaces
JoinWords(s) ==
  LET last == IF WordEnds(s) = {} THEN 0
              ELSE CHOOSE i \in DOMAIN s :
                     ~IsSpace(s[i]) /\ \A j \in (i + 1)..Len(s) : IsSpace(s[j])
      mark == [i \in DOMAIN s |->
                 IF ~IsSpace(s[i]) THEN s[i]
                 ELSE IF i > 1 /\ i < last /\ ~IsSpace(s[i - 1]) THEN " "
                 ELSE ""]
  IN DropMarked(mark)

\* " ".join(s.split()[:k]); a negative k counts from the end, as a slice does
JoinFirstWords(s, k) ==
  LET n == WordCount(s)
      m == IF k >= 0 THEN k ELSE n + k
  IN IF m <= 0 THEN <<>>
     ELSE IF n <= m THEN JoinWords(s)
     ELSE JoinWords(SubSeq(s, 1, KthIn(WordEnds(s), m, 1, Len(s))))

(***************************************************************************)
(* The text functions of ScriptGenerator.                                  *)
(***************************************************************************)

\* the class [\.\!\?\|\u0964] of boundary_regex
IsBoundaryMark(c) == c \in {".", "!", "?", "|", "DANDA"}

\* the class [\.\!\?\u0964] of _ensure_sentence_boundary
IsSentenceEnd(c) == c \in {".", "!", "?", "DANDA"}

\* match.end() of the last match of boundary_regex in s, -1 when there is none
LastBoundaryIdx(s) ==
  LET hit(i) == IsBoundaryMark(s[i]) /\ IsSpace(s[i + 1])
      n == Len(s) - 1
  IN IF \E i \in 1..n : hit(i)
     THEN (CHOOSE i \in 1..n : hit(i) /\ \A j \in (i + 1)..n : ~hit(j)) + 1
     ELSE -1

\* the truncation that takes a mark at the end of the first words for a boundary
Truncate_EndIsBoundary(text, max_words) ==
  IF WordCount(text) <= max_words
  THEN text
  ELSE LET provisional == JoinFirstWords(text, max_words)
           last_boundary_idx == LastBoundaryIdx(provisional \o <<" ">>)
       IN IF last_boundary_idx # -1
          THEN Strip(SubSeq(provisional \o <<" ">>, 1, last_boundary_idx))
          ELSE Strip(provisional)

\* the truncation that never looks for a sentence boundary
Truncate_NoBoundary(text, max_words) ==
  IF WordCount(text) <= max_words
  THEN text
  ELSE Strip(JoinFirstWords(text, max_words))

\* the truncation with an off-by-one test of the word count
Truncate_OneWordOver(text, max_words) ==
  IF WordCount(text) <= max_words + 1
  THEN text
  ELSE Strip(JoinFirstWords(text, max_words))

\* the truncation cutting at match.start() of the last boundary, not match.end()
Truncate_CutBeforeMark(text, max_words) ==
  IF WordCount(text) <= max_words
  THEN text
  ELSE LET provisional == JoinFirstWords(text, max_words)
           last_boundary_idx == LastBoundaryIdx(provisional)
       IN IF last_boundary_idx # -1
          THEN Strip(SubSeq(provisional, 1, last_boundary_idx - 2))
          ELSE Strip(provisional)

_truncate_to_words_sentence_aware(text, max_words) ==
  IF WordCount(text) <= max_words
  THEN text
  ELSE LET provisional == JoinFirstWords(text, max_words)
           last_boundary_idx == LastBoundaryIdx(provisional)
       IN IF last_boundary_idx # -1
          THEN Strip(SubSeq(provisional, 1, last_boundary_idx))
          ELSE Strip(provisional)

\* the boundary step without the appended period
Ensure_NoPeriod(text) == RStrip(text)

\* the boundary step with the pipe taken for a sentence end
Ensure_PipeEnds(text) ==
  LET cleaned == RStrip(text)
  IN IF cleaned # <<>> /\ IsBoundaryMark(cleaned[Len(cleaned)])
     THEN cleaned
     ELSE cleaned \o <<".">>

_ensure_sentence_boundary(text) ==
  LET cleaned == RStrip(text)
  IN IF cleaned # <<>> /\ IsSentenceEnd(cleaned[Len(cleaned)])
     THEN cleaned
     ELSE cleaned \o <<".">>

\* text.split('\n'): the lines of text, in order
RECURSIVE SplitLines(_)
SplitLines(text) ==
  LET nl == IF \E j \in DOMAIN text : text[j] = "\n"
            THEN CHOOSE j \in DOMAIN text :
                   text[j] = "\n" /\ \A k \in 1..(j - 1) : text[k] # "\n"
            ELSE Len(text) + 1
  IN IF nl > Len(text)
     THEN <<text>>
     ELSE <<SubSeq(text, 1, nl - 1)>> \o SplitLines(SubSeq(text, nl + 1, Len(text)))

\* "\n".join(lines)
RECURSIVE JoinLines(_)
JoinLines(lines) ==
  IF lines = <<>> THEN <<>>
  ELSE IF Len(lines) = 1 THEN lines[1]
  ELSE lines[1] \o <<"\n">> \o JoinLines(Tail(lines))

\* the characters re.sub(r'[\u200B-\u200D\uFEFF]', '') and re.sub(r'\uFFFD+', '') remove
IsZeroWidth(c) == c \in {"ZWSP", "ZWNJ", "ZWJ", "BOM"}

IsReplacementChar(c) == c = "FFFD"

\* re.sub(r'\n\s*\n\s*\n', '\n\n', s): in a run of whitespace that holds three
\* line feeds or more, what lies between the first and the last of them becomes
\* two line feeds
CollapseBlankLines(s) ==
  LET NL == {i \in DOMAIN s : s[i] = "\n"}
      AllSpace(a, b) == \A k \in a..b : IsSpace(s[k])
      First(f) == \A g \in NL : g < f => ~AllSpace(g, f)
      Last(l) == \A g \in NL : g > l => ~AllSpace(l, g)
      Matches == {m \in NL \X NL :
                    /\ m[1] < m[2]
                    /\ AllSpace(m[1], m[2])
                    /\ First(m[1])
                    /\ Last(m[2])
                    /\ \E g \in NL : m[1] < g /\ g < m[2]}
      mark == [i \in DOMAIN s |->
                 IF \E m \in Matches : m[1] < i /\ i < m[2] THEN "" ELSE s[i]]
  IN DropMarked(mark)

\* re.sub(r'[ \t]+', ' ', s)
NormalizeSpaces(s) ==
  LET blank(c) == c \in {" ", "\t"}
      mark == [i \in DOMAIN s |->
                 IF ~blank(s[i]) THEN s[i]
                 ELSE IF i > 1 /\ blank(s[i - 1]) THEN ""
                 ELSE " "]
  IN DropMarked(mark)

\* s.replace('\r\n', '\n').replace('\r', '\n')
NormalizeLineBreaks(s) ==
  LET mark == [i \in DOMAIN s |->
                 IF s[i] # "\r" THEN s[i]
                 ELSE IF i < Len(s) /\ s[i + 1] = "\n" THEN ""
                 ELSE "\n"]
  IN DropMarked(mark)

_clean_response_text(text) ==
  LET no_zero_width == SelectSeq(text, LAMBDA c : ~IsZeroWidth(c))
      no_replacement == SelectSeq(no_zero_width, LAMBDA c : ~IsReplacementChar(c))
  IN NormalizeLineBreaks(NormalizeSpaces(CollapseBlankLines(no_replacement)))

\* the tuple of line.lower().startswith(...) in _post_process_script
SectionKeywords ==
  { <<"h", "o", "o", "k">>,
    <<"i", "n", "t", "r", "o">>,
    <<"m", "a", "i", "n">>,
    <<"c", "o", "n", "c", "l", "u", "s", "i", "o", "n">>,
    <<"o", "u", "t", "r", "o">>,
    <<"c", "t", "a">> }

IsSectionLine(line) == \E kw \in SectionKeywords : StartsWith(Lower(line), kw)

\* the loop of _post_process_script over cleaned_lines
FormatLine(line) ==
  IF IsSectionLine(line)
  THEN <<"\n", "[">> \o Upper(Strip(line)) \o <<"]", "\n">>
  ELSE line

\* script_text of _post_process_script before the cap is enforced
FormatSections(raw_script) ==
  LET lines == SplitLines(raw_script)
      stripped == [i \in DOMAIN lines |-> Strip(lines[i])]
      cleaned_lines == SelectSeq(stripped, LAMBDA l : l # <<>>)
  IN JoinLines([i \in DOMAIN cleaned_lines |-> FormatLine(cleaned_lines[i])])

\* the post-processing that reports the cap as the word count
PostProcess_CountIsCap(raw_script, hard_word_cap) ==
  LET truncated == _truncate_to_words_sentence_aware(FormatSections(raw_script), hard_word_cap)
      script_text == _ensure_sentence_boundary(truncated)
  IN [script |-> script_text, word_count |-> hard_word_cap]

\* the 'script' and 'word_count' of the dictionary _post_process_script returns
_post_process_script(raw_script, hard_word_cap) ==
  LET truncated == _truncate_to_words_sentence_aware(FormatSections(raw_script), hard_word_cap)
      script_text == _ensure_sentence_boundary(truncated)
  IN [script |-> script_text, word_count |-> WordCount(script_text)]

\* re.match(r"^(?:\d+[\).]|[-*]\s)\s*", ln)
MatchesNumberedOrBullet(ln) ==
  LET d == RunEnd(ln, 1, DigitChars)
  IN \/ d > 1 /\ d <= Len(ln) /\ ln[d] \in {")", "."}
     \/ Len(ln) >= 2 /\ ln[1] \in {"-", "*"} /\ IsSpace(ln[2])

\* re.match(r"^\*\*\s*\w+\s*\d+\s*\*\*", ln): after the opening asterisks and
\* blanks either a run of word characters, blanks and a run of digits, or a
\* run of word characters of length two or more that ends in a digit
MatchesBoldLabel(ln) ==
  LET Closes(i) == LET j == RunEnd(ln, i, SpaceChars)
                   IN j + 1 <= Len(ln) /\ ln[j] = "*" /\ ln[j + 1] = "*"
      w == RunEnd(ln, 3, SpaceChars)
      e == RunEnd(ln, w, WordChars)
      g == RunEnd(ln, e, SpaceChars)
      h == RunEnd(ln, g, DigitChars)
  IN /\ Len(ln) >= 2 /\ ln[1] = "*" /\ ln[2] = "*"
     /\ e > w
     /\ \/ e - w >= 2 /\ IsDigit(ln[e - 1]) /\ Closes(e)
        \/ g > e /\ h > g /\ Closes(h)

\* the words of the third pattern of _count_list_items
ItemLabels ==
  { <<"l", "a", "p", "t", "o", "p">>, <<"p", "h", "o", "n", "e">>, <<"i", "t", "e", "m">> }

\* re.match(r"^(?:laptop|phone|item)\s*\d+[:\-]", ln, flags=re.IGNORECASE)
MatchesItemLabel(ln) ==
  \E kw \in ItemLabels :
    /\ StartsWith(Lower(ln), kw)
    /\ LET g == RunEnd(ln, Len(kw) + 1, SpaceChars)
           h == RunEnd(ln, g, DigitChars)
       IN h > g /\ h <= Len(ln) /\ ln[h] \in {":", "-"}

_count_list_items(text) ==
  LET lines == SplitLines(text)
  IN Cardinality({i \in DOMAIN lines :
                    LET ln == Strip(lines[i])
                    IN \/ MatchesNumberedOrBullet(ln)
                       \/ MatchesBoldLabel(ln)
                       \/ MatchesItemLabel(ln)})

\* Optional[...]: the value None
None == <<"None">>

\* int(m) of the digits s[i..j]
RECURSIVE IntOf(_, _, _)
IntOf(s, i, j) == IF j < i THEN 0 ELSE 10 * IntOf(s, i, j - 1) + DigitVal(s[j])

\* the nouns of the second pattern of _extract_expected_item_count
CountedNouns ==
  { <<"i", "t", "e", "m">>, <<"l", "a", "p", "t", "o", "p">>, <<"p", "h", "o", "n", "e">>,
    <<"m", "o", "b", "i", "l", "e">>, <<"t", "i", "p">>, <<"p", "o", "i", "n", "t">> }

\* re.findall(r"top\s+(\d+)", text, flags=re.IGNORECASE), as integers
TopMatches(text) ==
  LET low == Lower(text)
  IN {IntOf(text, RunEnd(text, i + 3, SpaceChars), RunEnd(text, RunEnd(text, i + 3, SpaceChars), DigitChars) - 1) :
        i \in {p \in 1..(Len(text) - 2) :
                 /\ SubSeq(low, p, p + 2) = <<"t", "o", "p">>
                 /\ RunEnd(text, p + 3, SpaceChars) > p + 3
                 /\ RunEnd(text, RunEnd(text, p + 3, SpaceChars), DigitChars) > RunEnd(text, p + 3, SpaceChars)}}

\* re.findall(r"\b(\d+)\s*(?:items?|laptops?|phones?|mobiles?|tips?|points?)\b", ...)
NounMatches(text) ==
  LET low == Lower(text)
      AtWordEnd(e) == e > Len(text) \/ ~IsWordChar(text[e])
      NounAt(r) == \E kw \in CountedNouns :
                     /\ StartsWith(SubSeq(low, r, Len(low)), kw)
                     /\ \/ AtWordEnd(r + Len(kw))
                        \/ /\ r + Len(kw) <= Len(low)
                           /\ low[r + Len(kw)] = "s"
                           /\ AtWordEnd(r + Len(kw) + 1)
  IN {IntOf(text, i, RunEnd(text, i, DigitChars) - 1) :
        i \in {p \in DOMAIN text :
                 /\ IsDigit(text[p])
                 /\ (p = 1 \/ ~IsWordChar(text[p - 1]))
                 /\ NounAt(RunEnd(text, RunEnd(text, p, DigitChars), SpaceChars))}}

\* max(candidates) if candidates else None; None is -1 here
_extract_expected_item_count(topic, additional_context) ==
  LET parts == SelectSeq(<<topic, additional_context>>, LAMBDA t : t # None /\ t # <<>>)
      text == IF Len(parts) = 2 THEN parts[1] \o <<" ">> \o parts[2]
              ELSE IF Len(parts) = 1 THEN parts[1] ELSE <<>>
      candidates == TopMatches(text) \cup NounMatches(text)
  IN IF candidates = {} THEN -1
     ELSE CHOOSE m \in candidates : \A c \in candidates : c <= m

(***************************************************************************)
(* The request of one generate_script call and the word cap it resolves.   *)
(***************************************************************************)

Max(a, b) == IF a >= b THEN a ELSE b

Min(a, b) == IF a <= b THEN a ELSE b

\* words per minute of default_target_words
WordsPerMinute == 150

\* the range an override is clamped to
MinWordCap == 200

MaxWordCap == 5000

\* the ceiling of the default cap
DefaultCapCeiling == 2000

\* _attempt_continuation and _attempt_guided_continuation return the text as it
\* is when fewer words than this remain
MinContinuationWords == 50

\* generate_script asks for a guided continuation when more words than this remain
GuidedMarginWords == 60

\* an Optional[int] argument: absent, or an integer
NoInt == [some |-> FALSE, val |-> 0]

SomeInt(v) == [some |-> TRUE, val |-> v]

\* the default cap without its ceiling
ResolveWordCap_NoCeiling(length_minutes, requested_word_cap) ==
  LET default_target_words == Max(WordsPerMinute, length_minutes * WordsPerMinute)
  IN IF requested_word_cap.some /\ requested_word_cap.val # 0 /\ requested_word_cap.val > 0
     THEN Max(MinWordCap, Min(MaxWordCap, requested_word_cap.val))
     ELSE default_target_words

\* an override of zero or less clamped like a positive one
ResolveWordCap_ClampAnyInt(length_minutes, requested_word_cap) ==
  LET default_target_words == Max(WordsPerMinute, length_minutes * WordsPerMinute)
  IN IF requested_word_cap.some
     THEN Max(MinWordCap, Min(MaxWordCap, requested_word_cap.val))
     ELSE Min(DefaultCapCeiling, default_target_words)

\* an override kept from falling below the floor, with no upper clamp
ResolveWordCap_NoUpperClamp(length_minutes, requested_word_cap) ==
  LET default_target_words == Max(WordsPerMinute, length_minutes * WordsPerMinute)
  IN IF requested_word_cap.some /\ requested_word_cap.val # 0 /\ requested_word_cap.val > 0
     THEN Max(MinWordCap, requested_word_cap.val)
     ELSE Min(DefaultCapCeiling, default_target_words)

\* hard_word_cap of generate_script
ResolveWordCap(length_minutes, requested_word_cap) ==
  LET default_target_words == Max(WordsPerMinute, length_minutes * WordsPerMinute)
  IN IF requested_word_cap.some /\ requested_word_cap.val # 0 /\ requested_word_cap.val > 0
     THEN Max(MinWordCap, Min(MaxWordCap, requested_word_cap.val))
     ELSE Min(DefaultCapCeiling, default_target_words)

\* the threshold without the factor 0.85
ShortThreshold_WholeCap(hard_word_cap) == hard_word_cap

\* int(hard_word_cap * 0.85): the product is exact to well within one part in
\* 10^15, so the truncation is that of 85 * cap / 100
ShortThreshold(hard_word_cap) == (hard_word_cap * 85) \div 100

(***************************************************************************)
(* The generation service.  A call of model.generate_content raises, or     *)
(* returns a response: its candidates (each with safety ratings and content *)
(* parts), what its quick accessor response.text does, and str(response).  *)
(* generation_config sets no candidate_count, so a response carries at     *)
(* most one candidate.                                                     *)
(***************************************************************************)

\* the outcome of an attribute access or a conversion that raises
Raises == <<"Raises">>

IsText(v) == v # Raises /\ v # None

\* bool(v) of an Optional[str]
Truthy(v) == IsText(v) /\ v # <<>>

\* n words of one letter, separated by single spaces
Body(n) == IF n = 0 THEN <<>> ELSE Rep(<<"a", " ">>, n - 1) \o <<"a">>

\* a topic that names no count
ExpectedTopicless(topic) == _extract_expected_item_count(topic, None) = -1

\* the requests of the model: a topic with no count, alone or with a context
\* that counts two tips, a topic with "Top 5", and the empty topic; one minute;
\* no override of the cap, or one large enough for 85% of the cap to leave
\* more than MinContinuationWords
Topics ==
  { <<>>,
    <<"p", "h", "o", "n", "e", "s">>,
    <<"T", "o", "p", " ", "5", " ", "p", "h", "o", "n", "e", "s">> }

Contexts == {None, <<"2", " ", "t", "i", "p", "s">>}

Durations == {1}

WordCapOverrides == {NoInt, SomeInt(400)}

\* creator_style of a request that names no creator: None or "", both false
\* in the test of _build_generation_prompt
NoCreator == ""

Requests ==
  {r \in [topic : Topics, additional_context : Contexts,
          length_minutes : Durations, requested_word_cap : WordCapOverrides,
          creator_style : {NoCreator}] :
     /\ r.additional_context = None \/ ExpectedTopicless(r.topic)
     /\ r.topic = <<>> => (r.additional_context = None /\ r.requested_word_cap = NoInt)}

\* the word caps the requests of the model resolve to
ModelCaps == {ResolveWordCap(r.length_minutes, r.requested_word_cap) : r \in Requests}

\* how far around each threshold of the word count the texts of the model reach
Spread == 1

\* the word counts of the bodies: around the least count that still leaves
\* MinContinuationWords, around the one that leaves GuidedMarginWords, around
\* int(0.85 * cap) and around the cap
BodySizes ==
  {1} \cup {c - MinContinuationWords + d : c \in ModelCaps, d \in (0 - Spread)..Spread}
      \cup {c - GuidedMarginWords + d : c \in ModelCaps, d \in (0 - Spread)..Spread}
      \cup {ShortThreshold(c) + d : c \in ModelCaps, d \in (0 - Spread)..Spread}
      \cup {c + d : c \in ModelCaps, d \in (0 - Spread)..Spread}

BlankText == <<" ", "\n", " ">>

ThreeItemsText == <<"1", ".", " ", "a", "\n", "2", ".", " ", "a", "\n", "3", ".", " ", "a">>

SectionsText == <<"I", "n", "t", "r", "o", "\n", "a", " ", "b", "\n", "o", "u", "t", "r", "o">>

\* the largest cap of the model
LargestCap == CHOOSE c \in ModelCaps : \A d \in ModelCaps : d <= c

\* more words than any cap, with sentence boundaries near the start
SentencesText == <<"a", ".", " ", "b", "!", " ">> \o Body(LargestCap)

PipeText == <<"a", " ", "|", " ">> \o Body(LargestCap)

\* the texts a first or fallback response carries
FirstTexts ==
  {Body(n) : n \in BodySizes}
    \cup {BlankText, ThreeItemsText, SectionsText, SentencesText, PipeText}

\* the texts a continuation response carries
MoreTexts ==
  { <<>>, <<" ">>, <<"a">>,
    <<"4", ".", " ", "a">>,
    <<"4", ".", " ", "a", "\n", "5", ".", " ", "a">>,
    Body(LargestCap) }

Rating(c, p) == [category |-> c, probability |-> p]

SafeRatings == <<Rating("HARM_CATEGORY_HARASSMENT", "NEGLIGIBLE"),
                 Rating("HARM_CATEGORY_HATE_SPEECH", "LOW")>>

\* the rating lists of the model: none, harmless, one MEDIUM, one HIGH after a LOW
RatingLists ==
  { <<>>,
    SafeRatings,
    <<Rating("HARM_CATEGORY_DANGEROUS_CONTENT", "MEDIUM")>>,
    <<Rating("HARM_CATEGORY_HARASSMENT", "LOW"),
      Rating("HARM_CATEGORY_SEXUALLY_EXPLICIT", "HIGH"),
      Rating("HARM_CATEGORY_HATE_SPEECH", "MEDIUM")>> }

Response(cands, txt, repr) == [candidates |-> cands, text |-> txt, str |-> repr]

Candidate(ratings, parts) == [safety_ratings |-> ratings, parts |-> parts]

\* a response the service declined: no candidate, and the accessor raises
DeclinedResponses == {Response(<<>>, Raises, <<"r">>)}

\* a response with text: the accessor returns the text of its one part
TextResponses ==
  {Response(<<Candidate(SafeRatings, <<t>>)>>, t, <<"r">>) : t \in FirstTexts}

\* the same with every rating list, for a short text
RatedResponses ==
  {Response(<<Candidate(r, <<Body(1)>>)>>, Body(1), <<"r">>) : r \in RatingLists}

\* a candidate whose accessor gives no text: it raises, or returns None or ''
TextlessResponses ==
  {Response(<<Candidate(r, ps)>>, acc, repr) :
     r \in {SafeRatings, <<Rating("HARM_CATEGORY_HARASSMENT", "HIGH")>>},
     ps \in { <<>>, <<None>>, <<None, <<"a">>, <<>>, <<"b">> >> },
     acc \in {Raises, None, <<>>},
     repr \in {<<>>, <<"r">>, Raises}}

Responses == DeclinedResponses \cup TextResponses \cup RatedResponses \cup TextlessResponses

\* str(e) of the exception a failed call raises
CallErrors == {"503 service unavailable"}

\* str(e) of the exception the quick accessor raises
AccessorError == "response.text needs a valid Part"

\* what a call of model.generate_content does: raise, or return a response
Raised(msg) == [raised |-> TRUE, message |-> msg, response |-> Response(<<>>, Raises, <<>>)]

Returned(r) == [raised |-> FALSE, message |-> "", response |-> r]

CallOutcomes == {Raised(m) : m \in CallErrors} \cup {Returned(r) : r \in Responses}

\* continuation responses with text whose candidate carries a MEDIUM or a
\* HIGH rating
RatedMoreResponses ==
  {Response(<<Candidate(<<Rating("HARM_CATEGORY_DANGEROUS_CONTENT", p)>>, <<t>>)>>, t, <<"r">>) :
     p \in {"MEDIUM", "HIGH"}, t \in {<<"4", ".", " ", "a">>}}

\* of a continuation call only more.text is read
MoreOutcomes ==
  {Raised(m) : m \in CallErrors}
    \cup {Returned(Response(<<>>, t, <<"r">>)) : t \in MoreTexts \cup {Raises, None}}
    \cup {Returned(r) : r \in RatedMoreResponses}

(***************************************************************************)
(* The creator-style profiles: the values train_on_transcripts builds, and *)
(* the JSON document save_training_context writes of them.  A Python value *)
(* carries its type; json.dump encodes dict, list, str, int and float and  *)
(* raises TypeError on a value of any other type.                          *)
(***************************************************************************)

PyStr(s) == [type |-> "str", val |-> s]

PyInt(n) == [type |-> "int", val |-> n]

RECURSIVE GCD(_, _)
GCD(a, b) == IF b = 0 THEN a ELSE GCD(b, a % b)

\* the float num / den
PyFloat(num, den) ==
  LET g == GCD(num, den) IN [type |-> "float", val |-> <<num \div g, den \div g>>]

PyList(elems) == [type |-> "list", val |-> elems]

\* a dict: val maps each key to its value
PyDict(items) == [type |-> "dict", val |-> items]

EmptyDict == PyDict(<<>>)

\* key in d, d[key]
HasKey(d, key) == key \in DOMAIN d.val

\* a ProcessedTranscript record: the creator, the language fractions in
\* hundredths, the tone markers, the style markers and the texts of the
\* segments ("" for a segment without text)
ProcessedTranscript(uploader, hindi, english, tones, style_markers, segments) ==
  [type |-> "ProcessedTranscript",
   uploader |-> uploader,
   language_breakdown |-> [hindi_ratio |-> hindi, english_ratio |-> english],
   tone_markers |-> tones,
   style_markers |-> style_markers,
   segments |-> segments]

Tones == <<"enthusiasm", "technical_depth", "friendliness">>

ToneMarkers(e, t, f) == [enthusiasm |-> e, technical_depth |-> t, friendliness |-> f]

\* the sum of one tone marker over transcripts
RECURSIVE ToneSum(_, _)
ToneSum(transcripts, tone) ==
  IF transcripts = <<>> THEN 0
  ELSE transcripts[1].tone_markers[tone] + ToneSum(Tail(transcripts), tone)

\* the elements of a set as a list, in the order the set yields them
RECURSIVE ListOfSet(_)
ListOfSet(S) ==
  IF S = {} THEN <<>>
  ELSE LET x == CHOOSE y \in S : TRUE IN <<x>> \o ListOfSet(S \ {x})

\* the concatenation of a sequence of sequences
RECURSIVE Concat(_)
Concat(seqs) == IF seqs = <<>> THEN <<>> ELSE seqs[1] \o Concat(Tail(seqs))

FirstN(seq, n) == SubSeq(seq, 1, Min(n, Len(seq)))

LastN(seq, n) == SubSeq(seq, Max(1, Len(seq) - n + 1), Len(seq))

\* the elements of a list, as a set
Elems(seq) == {seq[i] : i \in DOMAIN seq}

\* the entry _analyze_creator_styles builds of the transcripts of one creator
CreatorAnalysis(own) ==
  LET hindi == SelectSeq(own, LAMBDA t : t.language_breakdown.hindi_ratio > 60)
      english == SelectSeq(own, LAMBDA t : /\ ~(t.language_breakdown.hindi_ratio > 60)
                                            /\ t.language_breakdown.english_ratio > 60)
      balanced == SelectSeq(own, LAMBDA t : /\ ~(t.language_breakdown.hindi_ratio > 60)
                                             /\ ~(t.language_breakdown.english_ratio > 60))
      texts(segs) == SelectSeq(segs, LAMBDA x : x # "")
      intro == Concat([i \in DOMAIN own |-> texts(FirstN(own[i].segments, 5))])
      outro == Concat([i \in DOMAIN own |-> texts(LastN(own[i].segments, 5))])
      markers == UNION {Elems(own[i].style_markers) : i \in DOMAIN own}
  IN PyDict(
       [k \in {"transcripts", "common_patterns", "language_preferences", "tone_profile",
               "content_style", "intro_patterns", "outro_patterns"} |->
          CASE k = "transcripts" -> PyList(own)
            [] k = "common_patterns" -> PyList(<<>>)
            [] k = "language_preferences" ->
                 PyDict([c \in {"hindi_dominant", "english_dominant", "balanced"} |->
                           CASE c = "hindi_dominant" -> PyInt(Len(hindi))
                             [] c = "english_dominant" -> PyInt(Len(english))
                             [] OTHER -> PyInt(Len(balanced))])
            [] k = "tone_profile" ->
                 PyDict([tone \in Elems(Tones) |-> PyFloat(ToneSum(own, tone), Len(own))])
            [] k = "content_style" -> PyList([i \in DOMAIN ListOfSet(markers) |-> PyStr(ListOfSet(markers)[i])])
            [] k = "intro_patterns" ->
                 PyList([i \in DOMAIN ListOfSet(Elems(FirstN(intro, 10))) |->
                           PyStr(ListOfSet(Elems(FirstN(intro, 10)))[i])])
            [] OTHER ->
                 PyList([i \in DOMAIN ListOfSet(Elems(FirstN(outro, 10))) |->
                           PyStr(ListOfSet(Elems(FirstN(outro, 10)))[i])])])

\* every creator analysed over all the transcripts, not over its own
Analyze_Unpartitioned(transcripts) ==
  PyDict([creator \in {transcripts[i].uploader : i \in DOMAIN transcripts} |->
            CreatorAnalysis(transcripts)])

\* creator_analysis: one entry for each creator of the transcripts
_analyze_creator_styles(transcripts) ==
  PyDict([creator \in {transcripts[i].uploader : i \in DOMAIN transcripts} |->
            CreatorAnalysis(SelectSeq(transcripts, LAMBDA t : t.uploader = creator))])

\* training_context: the examples of each creator
_create_training_context(transcripts) ==
  PyDict(
    [k \in {"examples_by_creator"} |->
       PyDict([creator \in {transcripts[i].uploader : i \in DOMAIN transcripts} |->
                 LET own == SelectSeq(transcripts, LAMBDA t : t.uploader = creator)
                 IN PyList([i \in DOMAIN own |->
                              PyDict([f \in {"creator"} |-> PyStr(creator)])])])])

\* whether json.dump encodes the value
RECURSIVE IsJsonSerializable(_)
IsJsonSerializable(v) ==
  CASE v.type \in {"str", "int", "float"} -> TRUE
    [] v.type = "list" -> \A i \in DOMAIN v.val : IsJsonSerializable(v.val[i])
    [] v.type = "dict" -> \A k \in DOMAIN v.val : IsJsonSerializable(v.val[k])
    [] OTHER -> FALSE

\* the JSON document of a serializable value: objects, arrays, strings, and
\* number literals written with or without a fraction part
RECURSIVE JsonEncode(_)
JsonEncode(v) ==
  CASE v.type = "str" -> [json |-> "string", text |-> v.val]
    [] v.type = "int" -> [json |-> "number", literal |-> <<v.val>>]
    [] v.type = "float" -> [json |-> "number", literal |-> v.val]
    [] v.type = "list" ->
         [json |-> "array", elements |-> [i \in DOMAIN v.val |-> JsonEncode(v.val[i])]]
    [] v.type = "dict" ->
         [json |-> "object", members |-> [k \in DOMAIN v.val |-> JsonEncode(v.val[k])]]

\* the value json.load builds of a document
RECURSIVE JsonDecode(_)
JsonDecode(doc) ==
  CASE doc.json = "string" -> PyStr(doc.text)
    [] doc.json = "number" ->
         IF Len(doc.literal) = 1 THEN PyInt(doc.literal[1])
         ELSE PyFloat(doc.literal[1], doc.literal[2])
    [] doc.json = "array" ->
         PyList([i \in DOMAIN doc.elements |-> JsonDecode(doc.elements[i])])
    [] doc.json = "object" ->
         PyDict([k \in DOMAIN doc.members |-> JsonDecode(doc.members[k])])

\* generation_config as __init__ sets it: temperature and top_p in tenths
InitialGenerationConfig ==
  PyDict([k \in {"temperature", "top_p", "top_k", "max_output_tokens"} |->
            CASE k = "temperature" -> PyFloat(7, 10)
              [] k = "top_p" -> PyFloat(8, 10)
              [] k = "top_k" -> PyInt(40)
              [] OTHER -> PyInt(2048)])

\* the budget of output tokens of one call: max(256, min(4096, int(cap * 1.3)))
MaxOutputTokens(cap) == Max(256, Min(4096, (cap * 13) \div 10))

\* call_generation_config: {**self.generation_config, "max_output_tokens": ...}
CallGenerationConfig(config, cap) ==
  PyDict([config.val EXCEPT !["max_output_tokens"] = PyInt(MaxOutputTokens(cap))])

\* the budget written into the generator's own dictionary
ConfigLeftBehind_UpdatedInPlace(config, cap) == CallGenerationConfig(config, cap)

\* self.generation_config once call_generation_config is built: the
\* unpacking builds a new dictionary and leaves the generator's as it was
ConfigLeftBehind(config, cap) == config

\* context_save_data of save_training_context
ContextSaveData(styles, context) ==
  PyDict([k \in {"creator_styles", "training_context", "generation_config"} |->
            CASE k = "creator_styles" -> styles
              [] k = "training_context" -> context
              [] OTHER -> InitialGenerationConfig])

\* the file at filepath: absent, holding a whole document, or holding the part
\* of a document written before json.dump raised
NoFile == [exists |-> FALSE, complete |-> FALSE, document |-> None]

WholeFile(doc) == [exists |-> TRUE, complete |-> TRUE, document |-> doc]

PartialFile == [exists |-> TRUE, complete |-> FALSE, document |-> None]

\* context_data.get(key, {})
GetOrEmpty(context_data, key) ==
  IF HasKey(context_data, key) THEN context_data.val[key] ELSE EmptyDict

(***************************************************************************)
(* generate_script.  One step runs from the return of one external call to *)
(* the point where the next one is issued; pc names the point reached.     *)
(***************************************************************************)

VARIABLES
  pc,                \* "initial", "retry_simple", "called", "continuing", "guided",
                     \* "finalize" or "done"
  request,           \* the arguments of the call
  hard_word_cap,     \* the resolved word cap
  response,          \* the response in hand
  script_text,       \* the text extracted from it
  accumulated_text,  \* the text so far
  calls,             \* the external calls issued so far, in order, each with
                     \* what it did
  result,            \* the dictionary returned
  creator_styles,    \* self.creator_styles
  training_context,  \* self.training_context
  context_file,      \* the file save_training_context writes
  processed_transcripts,  \* the argument of train_on_transcripts
  creator_data,      \* creator_data of _build_generation_prompt
  styles_checked,    \* the mapping the membership test of _build_generation_prompt read
  generation_config  \* self.generation_config

\* the generator's profiles, and what the profile operations work on
profile_vars ==
  <<creator_styles, training_context, context_file, processed_transcripts, creator_data,
    styles_checked, generation_config>>

vars ==
  <<pc, request, hard_word_cap, response, script_text, accumulated_text, calls, result,
    creator_styles, training_context, context_file, processed_transcripts, creator_data,
    styles_checked, generation_config>>

\* the generator as __init__ leaves it: no profiles, nothing saved
ProfileInit ==
  /\ creator_styles = EmptyDict
  /\ training_context = EmptyDict
  /\ context_file = NoFile
  /\ processed_transcripts = <<>>
  /\ creator_data = None
  /\ styles_checked = None
  /\ generation_config = InitialGenerationConfig

NoRequest ==
  [topic |-> <<>>, additional_context |-> None, length_minutes |-> 0,
   requested_word_cap |-> NoInt, creator_style |-> NoCreator]

NoResponse == Response(<<>>, Raises, <<>>)

NoResult ==
  [keys |-> {}, success |-> FALSE, error |-> "", blocked_categories |-> <<>>,
   script |-> None, estimated_word_count |-> 0]

\* the error texts of generate_script; the second carries the blocked categories
ContentBlockedError ==
  "Content blocked by safety filters. Please try a different topic or rephrase your request."

RatingBlockedError ==
  "Content blocked by safety filters: {blocked_categories}. Try rephrasing your topic or context."

NoTextError == "No text content generated. The response may have been blocked or filtered."

\* a failure that reports a fixed text, not the one it is given
Failure_FixedText(err, blocked) ==
  [keys |-> {"success", "error", "metadata"}, success |-> FALSE,
   error |-> "Script generation failed",
   blocked_categories |-> blocked, script |-> None, estimated_word_count |-> 0]

\* the dictionaries generate_script returns
Failure(err, blocked) ==
  [keys |-> {"success", "error", "metadata"}, success |-> FALSE, error |-> err,
   blocked_categories |-> blocked, script |-> None, estimated_word_count |-> 0]

Success(processed_script) ==
  [keys |-> {"success", "script", "metadata", "timing_suggestions", "creator_patterns_applied"},
   success |-> TRUE, error |-> "", blocked_categories |-> <<>>,
   script |-> processed_script.script,
   estimated_word_count |-> processed_script.word_count]

\* one call of model.generate_content: what its prompt carries, whether it
\* raised and with what message, and the response it returned
Call(kind, topic, minutes, cap, remaining, first_item, last_item, outcome) ==
  [kind |-> kind, topic |-> topic, length_minutes |-> minutes, hard_word_cap |-> cap,
   remaining_words |-> remaining, first_item |-> first_item, last_item |-> last_item,
   raised |-> outcome.raised, message |-> outcome.message,
   candidates |-> Len(outcome.response.candidates), response |-> outcome.response]

\* the prompt built without the topic
InitialCall_NoTopic(req, cap, outcome) ==
  Call("initial", <<>>, req.length_minutes, cap, 0, 0, 0, outcome)

\* the prompt of _build_generation_prompt
InitialCall(req, cap, outcome) ==
  Call("initial", req.topic, req.length_minutes, cap, 0, 0, 0, outcome)

\* simple_prompt
FallbackCall(req, outcome) ==
  Call("fallback", req.topic, req.length_minutes, 0, 0, 0, 0, outcome)

\* continuation_prompt of _attempt_continuation
ContinuationCall(cap, remaining, outcome) ==
  Call("continuation", <<>>, 0, cap, remaining, 0, 0, outcome)

\* the guidance starting at the item already written
GuidedCall_FromCurrentItem(cap, remaining, first_item, last_item, outcome) ==
  Call("guided", <<>>, 0, cap, remaining, first_item - 1, last_item, outcome)

\* continuation_prompt of _attempt_guided_continuation, with its guidance
GuidedCall(cap, remaining, first_item, last_item, outcome) ==
  Call("guided", <<>>, 0, cap, remaining, first_item, last_item, outcome)

\* the safety-rating check blocking HIGH only
BlockedCategories_HighOnly(resp) ==
  IF resp.candidates = <<>>
  THEN <<>>
  ELSE LET ratings == resp.candidates[1].safety_ratings
           blocked == SelectSeq(ratings, LAMBDA r : r.probability = "HIGH")
       IN [i \in DOMAIN blocked |-> <<blocked[i].category, blocked[i].probability>>]

\* blocked_categories of the safety-rating check, for the first candidate
BlockedCategories(resp) ==
  IF resp.candidates = <<>>
  THEN <<>>
  ELSE LET ratings == resp.candidates[1].safety_ratings
           blocked == SelectSeq(ratings, LAMBDA r : r.probability \in {"HIGH", "MEDIUM"})
       IN [i \in DOMAIN blocked |-> <<blocked[i].category, blocked[i].probability>>]

\* the text parts of a candidate, joined; None when it has none
PartsText(cand) ==
  LET parts_text == SelectSeq(cand.parts, Truthy)
  IN IF parts_text = <<>> THEN None ELSE JoinLines(parts_text)

\* the extraction that tries the string form before the parts
Extract_StrBeforeParts(resp) ==
  IF Truthy(resp.text)
  THEN resp.text
  ELSE IF Truthy(resp.str) THEN resp.str
  ELSE IF \E i \in DOMAIN resp.candidates : PartsText(resp.candidates[i]) # None
  THEN PartsText(resp.candidates[
         CHOOSE i \in DOMAIN resp.candidates : PartsText(resp.candidates[i]) # None])
  ELSE None

_extract_text_from_response(resp) ==
  IF Truthy(resp.text)
  THEN resp.text
  ELSE IF \E i \in DOMAIN resp.candidates : PartsText(resp.candidates[i]) # None
  THEN PartsText(resp.candidates[
         CHOOSE i \in DOMAIN resp.candidates :
           /\ PartsText(resp.candidates[i]) # None
           /\ \A j \in 1..(i - 1) : PartsText(resp.candidates[j]) = None])
  ELSE IF Truthy(resp.str) THEN resp.str ELSE None

\* expected_items of generate_script
ExpectedItems(req) == _extract_expected_item_count(req.topic, req.additional_context)

\* remaining_words of the continuation functions
RemainingWords(text, cap) == Max(0, cap - WordCount(text))

\* needs_more of generate_script
NeedsMore(text, cap, expected_items) ==
  \/ WordCount(text) < ShortThreshold(cap)
  \/ expected_items > 0 /\ _count_list_items(text) < expected_items

\* _attempt_continuation and _attempt_guided_continuation get past their guard
\* and issue their call
IssuesCall(text, cap) == ~(RemainingWords(text, cap) < MinContinuationWords)

\* the test for a guided continuation with the comparison of the counts reversed
WantsGuided_Reversed(text, cap, expected_items) ==
  /\ expected_items > 0
  /\ _count_list_items(text) > expected_items
  /\ cap - WordCount(text) > GuidedMarginWords

\* the test for a guided continuation passed with exactly the margin left
WantsGuided_AtLeast(text, cap, expected_items) ==
  /\ expected_items > 0
  /\ _count_list_items(text) < expected_items
  /\ cap - WordCount(text) >= GuidedMarginWords

\* generate_script calls _attempt_guided_continuation
WantsGuided(text, cap, expected_items) ==
  /\ expected_items > 0
  /\ _count_list_items(text) < expected_items
  /\ cap - WordCount(text) > GuidedMarginWords

\* the continuation result appended without the truncation to the cap
Continued_NoTruncation(current_text, cap, outcome) ==
  IF ~outcome.raised /\ Truthy(outcome.response.text)
  THEN RStrip(current_text) \o <<"\n", "\n">> \o Strip(outcome.response.text)
  ELSE current_text

\* the continuation that leaves the separator behind when no text came back
Continued_SeparatorAlways(current_text, cap, outcome) ==
  IF ~outcome.raised /\ Truthy(outcome.response.text)
  THEN _truncate_to_words_sentence_aware(
         RStrip(current_text) \o <<"\n", "\n">> \o Strip(outcome.response.text), cap)
  ELSE RStrip(current_text) \o <<"\n", "\n">>

\* what both continuation functions return for the outcome of their call
Continued(current_text, cap, outcome) ==
  IF ~outcome.raised /\ Truthy(outcome.response.text)
  THEN _truncate_to_words_sentence_aware(
         RStrip(current_text) \o <<"\n", "\n">> \o Strip(outcome.response.text), cap)
  ELSE current_text

\* the generic continuation repeated while the items fall short
AfterContinuation_Loop(text, cap, expected_items) ==
  IF WantsGuided(text, cap, expected_items) /\ IssuesCall(text, cap)
  THEN "continuing"
  ELSE "finalize"

\* where generate_script goes once the generic continuation step is over
AfterContinuation(text, cap, expected_items) ==
  IF WantsGuided(text, cap, expected_items) /\ IssuesCall(text, cap)
  THEN "guided"
  ELSE "finalize"

\* where generate_script goes with the extracted text
AfterExtraction(text, cap, expected_items) ==
  IF ~NeedsMore(text, cap, expected_items) THEN "finalize"
  ELSE IF IssuesCall(text, cap) THEN "continuing"
  ELSE AfterContinuation(text, cap, expected_items)

Init ==
  /\ pc = "initial"
  /\ request = NoRequest
  /\ hard_word_cap = 0
  /\ response = NoResponse
  /\ script_text = None
  /\ accumulated_text = <<>>
  /\ calls = <<>>
  /\ result = NoResult
  /\ ProfileInit

\* the call with the full prompt
GenerateScript ==
  /\ pc = "initial"
  /\ \E req \in Requests, outcome \in CallOutcomes :
       LET cap == ResolveWordCap(req.length_minutes, req.requested_word_cap)
       IN /\ request' = req
          /\ hard_word_cap' = cap
          /\ calls' = <<InitialCall(req, cap, outcome)>>
          /\ IF outcome.raised
             THEN /\ result' = Failure(outcome.message, <<>>)
                  /\ pc' = "done"
                  /\ UNCHANGED response
             ELSE /\ response' = outcome.response
                  /\ pc' = IF outcome.response.candidates = <<>>
                           THEN "retry_simple" ELSE "called"
                  /\ UNCHANGED result
          /\ generation_config' = ConfigLeftBehind(generation_config, cap)
  /\ UNCHANGED <<script_text, accumulated_text>>
  /\ UNCHANGED <<creator_styles, training_context, context_file, processed_transcripts,
                 creator_data, styles_checked>>

\* the call with the simpler prompt, after a response with no candidates
RetrySimple ==
  /\ pc = "retry_simple"
  /\ \E outcome \in CallOutcomes :
       /\ calls' = Append(calls, FallbackCall(request, outcome))
       /\ IF outcome.raised
          THEN /\ result' = Failure(outcome.message, <<>>)
               /\ pc' = "done"
               /\ UNCHANGED response
          ELSE /\ response' = outcome.response
               /\ IF outcome.response.candidates = <<>>
                  THEN result' = Failure(ContentBlockedError, <<>>) /\ pc' = "done"
                  ELSE IF outcome.response.text = Raises
                  THEN result' = Failure(AccessorError, <<>>) /\ pc' = "done"
                  ELSE IF ~Truthy(outcome.response.text)
                  THEN result' = Failure(ContentBlockedError, <<>>) /\ pc' = "done"
                  ELSE pc' = "called" /\ UNCHANGED result
  /\ UNCHANGED <<request, hard_word_cap, script_text, accumulated_text>>
  /\ UNCHANGED profile_vars

\* the safety-rating check, the extraction and the test for a continuation
EvaluateResponse ==
  /\ pc = "called"
  /\ LET blocked_categories == BlockedCategories(response)
         extracted == _extract_text_from_response(response)
     IN IF blocked_categories # <<>>
        THEN /\ result' = Failure(RatingBlockedError, blocked_categories)
             /\ pc' = "done"
             /\ UNCHANGED <<script_text, accumulated_text>>
        ELSE IF ~Truthy(extracted)
        THEN /\ result' = Failure(NoTextError, <<>>)
             /\ pc' = "done"
             /\ script_text' = extracted
             /\ UNCHANGED accumulated_text
        ELSE /\ script_text' = extracted
             /\ accumulated_text' = extracted
             /\ pc' = AfterExtraction(extracted, hard_word_cap, ExpectedItems(request))
             /\ UNCHANGED result
  /\ UNCHANGED <<request, hard_word_cap, response, calls>>
  /\ UNCHANGED profile_vars

\* the call of _attempt_continuation
Continuation ==
  /\ pc = "continuing"
  /\ \E outcome \in MoreOutcomes :
       LET text == Continued(accumulated_text, hard_word_cap, outcome)
       IN /\ calls' = Append(calls, ContinuationCall(hard_word_cap,
                               RemainingWords(accumulated_text, hard_word_cap), outcome))
          /\ accumulated_text' = text
          /\ pc' = AfterContinuation(text, hard_word_cap, ExpectedItems(request))
  /\ UNCHANGED <<request, hard_word_cap, response, script_text, result>>
  /\ UNCHANGED profile_vars

\* the call of _attempt_guided_continuation
GuidedContinuation ==
  /\ pc = "guided"
  /\ \E outcome \in MoreOutcomes :
       /\ calls' = Append(calls, GuidedCall(hard_word_cap,
                            RemainingWords(accumulated_text, hard_word_cap),
                            _count_list_items(accumulated_text) + 1,
                            ExpectedItems(request), outcome))
       /\ accumulated_text' = Continued(accumulated_text, hard_word_cap, outcome)
       /\ pc' = "finalize"
  /\ UNCHANGED <<request, hard_word_cap, response, script_text, result>>
  /\ UNCHANGED profile_vars

\* cleaning, post-processing and the return of the script
Finalize ==
  /\ pc = "finalize"
  /\ LET cleaned_text == _clean_response_text(accumulated_text)
         processed_script == _post_process_script(cleaned_text, hard_word_cap)
     IN result' = Success(processed_script)
  /\ pc' = "done"
  /\ UNCHANGED <<request, hard_word_cap, response, script_text, accumulated_text, calls>>
  /\ UNCHANGED profile_vars

\* generate_script has returned and its locals are gone; the caller may call
\* it again on the same generator
GenerateAgain ==
  /\ pc = "done"
  /\ pc' = "initial"
  /\ request' = NoRequest
  /\ hard_word_cap' = 0
  /\ response' = NoResponse
  /\ script_text' = None
  /\ accumulated_text' = <<>>
  /\ calls' = <<>>
  /\ result' = NoResult
  /\ UNCHANGED profile_vars

Next ==
  \/ GenerateScript
  \/ RetrySimple
  \/ EvaluateResponse
  \/ Continuation
  \/ GuidedContinuation
  \/ Finalize
  \/ GenerateAgain

Spec == Init /\ [][Next]_vars

(***************************************************************************)
(* The truncation as a function of its arguments: every text of at most    *)
(* MaxTextLen characters of TextAlphabet and every limit up to MaxLimit.   *)
(* The text is held in accumulated_text, the limit in hard_word_cap and    *)
(* the truncated text in script_text.                                      *)
(***************************************************************************)

MaxTextLen == 6

MaxLimit == 3

TextAlphabet == {"a", ".", " ", "\n"}

\* the texts of at most n characters
RECURSIVE TextsUpTo(_)
TextsUpTo(n) ==
  IF n = 0 THEN {<<>>}
  ELSE LET shorter == TextsUpTo(n - 1)
       IN shorter \cup {Append(t, c) : t \in {u \in shorter : Len(u) = n - 1}, c \in TextAlphabet}

TruncateInit ==
  /\ pc = "truncate"
  /\ accumulated_text \in TextsUpTo(MaxTextLen)
  /\ hard_word_cap \in 0..MaxLimit
  /\ script_text = None
  /\ request = NoRequest
  /\ response = NoResponse
  /\ calls = <<>>
  /\ result = NoResult
  /\ ProfileInit

Truncate ==
  /\ pc = "truncate"
  /\ script_text' = _truncate_to_words_sentence_aware(accumulated_text, hard_word_cap)
  /\ pc' = "truncated"
  /\ UNCHANGED <<request, hard_word_cap, response, accumulated_text, calls, result>>
  /\ UNCHANGED profile_vars

TruncateSpec == TruncateInit /\ [][Truncate]_vars

(***************************************************************************)
(* The word-cap resolution of generate_script on its own: the duration and *)
(* the override are drawn in the request, the resolved cap is left in      *)
(* hard_word_cap.                                                          *)
(***************************************************************************)

\* the largest duration drawn
MaxDuration == 20

CapDurations == 0..MaxDuration

\* overrides around zero and around both ends of the clamping range
CapOverrides ==
  {NoInt} \cup
  {SomeInt(b + d) : b \in {0, MinWordCap, MaxWordCap}, d \in (0 - Spread)..Spread}

CapInit ==
  /\ pc = "resolve"
  /\ request \in [topic : {<<"p">>}, additional_context : {None},
                   length_minutes : CapDurations, requested_word_cap : CapOverrides]
  /\ hard_word_cap = 0
  /\ response = NoResponse
  /\ script_text = None
  /\ accumulated_text = <<>>
  /\ calls = <<>>
  /\ result = NoResult
  /\ ProfileInit

ResolveCap ==
  /\ pc = "resolve"
  /\ pc' = "resolved"
  /\ hard_word_cap' = ResolveWordCap(request.length_minutes, request.requested_word_cap)
  /\ UNCHANGED <<request, response, script_text, accumulated_text, calls, result>>
  /\ UNCHANGED profile_vars

CapSpec == CapInit /\ [][ResolveCap]_vars

(***************************************************************************)
(* _clean_response_text on its own, applied once and then again to its own *)
(* output: the text given is in accumulated_text, the cleaned one in       *)
(* script_text.                                                            *)
(***************************************************************************)

MaxCleanLen == 5

CleanAlphabet == {"a", " ", "\n", "\r", "ZWSP"}

\* the texts of at most n characters of the alphabet
RECURSIVE TextsOver(_, _)
TextsOver(alphabet, n) ==
  IF n = 0 THEN {<<>>}
  ELSE LET shorter == TextsOver(alphabet, n - 1)
       IN shorter \cup {Append(t, c) : t \in {u \in shorter : Len(u) = n - 1}, c \in alphabet}

CleanInit ==
  /\ pc = "clean"
  /\ accumulated_text \in TextsOver(CleanAlphabet, MaxCleanLen)
  /\ script_text = None
  /\ hard_word_cap = 0
  /\ request = NoRequest
  /\ response = NoResponse
  /\ calls = <<>>
  /\ result = NoResult
  /\ ProfileInit

Clean ==
  /\ pc = "clean"
  /\ script_text' = _clean_response_text(accumulated_text)
  /\ pc' = "cleaned"
  /\ UNCHANGED <<request, hard_word_cap, response, accumulated_text, calls, result>>
  /\ UNCHANGED profile_vars

\* the cleaned text is cleaned again
CleanAgain ==
  /\ pc = "cleaned"
  /\ accumulated_text' = script_text
  /\ script_text' = _clean_response_text(script_text)
  /\ pc' = "recleaned"
  /\ UNCHANGED <<request, hard_word_cap, response, calls, result>>
  /\ UNCHANGED profile_vars

CleanNext == Clean \/ CleanAgain

CleanSpec == CleanInit /\ [][CleanNext]_vars

(***************************************************************************)
(* _ensure_sentence_boundary on its own: the text is drawn in              *)
(* accumulated_text, the result is left in script_text.                    *)
(***************************************************************************)

MaxEnsureLen == 3

EnsureAlphabet == {"a", " ", ".", "!", "?", "|", "DANDA"}

EnsureInit ==
  /\ pc = "ensure"
  /\ accumulated_text \in TextsOver(EnsureAlphabet, MaxEnsureLen)
  /\ script_text = None
  /\ hard_word_cap = 0
  /\ request = NoRequest
  /\ response = NoResponse
  /\ calls = <<>>
  /\ result = NoResult
  /\ ProfileInit

EnsureBoundary ==
  /\ pc = "ensure"
  /\ script_text' = _ensure_sentence_boundary(accumulated_text)
  /\ pc' = "ensured"
  /\ UNCHANGED <<request, hard_word_cap, response, accumulated_text, calls, result>>
  /\ UNCHANGED profile_vars

EnsureSpec == EnsureInit /\ [][EnsureBoundary]_vars

(***************************************************************************)
(* The profile operations of one generator: train_on_transcripts, then     *)
(* save_training_context, then load_training_context of the file saved.    *)
(***************************************************************************)

\* the longest collection of transcripts drawn
MaxTranscripts == 2

Uploaders == {"A", "B"}

\* three transcripts of each creator: mostly Hindi, mostly English, and one at
\* the edge of the Hindi fraction
Transcripts ==
  UNION {{ProcessedTranscript(u, 70, 30, ToneMarkers(8, 5, 7), <<"energetic">>, <<"hi">>),
          ProcessedTranscript(u, 30, 70, ToneMarkers(3, 9, 6), <<>>, <<>>),
          ProcessedTranscript(u, 60, 40, ToneMarkers(8, 8, 8), <<"energetic">>, <<"hi", "">>)} :
         u \in Uploaders}

TranscriptCollections == UNION {[1..n -> Transcripts] : n \in 0..MaxTranscripts}

ContextInit ==
  /\ pc = "untrained"
  /\ processed_transcripts \in TranscriptCollections
  /\ creator_styles = EmptyDict
  /\ training_context = EmptyDict
  /\ context_file = NoFile
  /\ creator_data = None
  /\ styles_checked = None
  /\ generation_config = InitialGenerationConfig
  /\ request = NoRequest
  /\ hard_word_cap = 0
  /\ response = NoResponse
  /\ script_text = None
  /\ accumulated_text = <<>>
  /\ calls = <<>>
  /\ result = NoResult

generate_vars ==
  <<request, hard_word_cap, response, script_text, accumulated_text, calls, result>>

\* train_on_transcripts; its sample generation changes nothing of the generator
TrainOnTranscripts ==
  /\ pc = "untrained"
  /\ creator_styles' = _analyze_creator_styles(processed_transcripts)
  /\ training_context' = _create_training_context(processed_transcripts)
  /\ pc' = "trained"
  /\ UNCHANGED <<generation_config, context_file, processed_transcripts, creator_data, styles_checked>>
  /\ UNCHANGED generate_vars

\* save_training_context: json.dump writes the document piece by piece and
\* raises at the first value it cannot encode
SaveTrainingContext ==
  /\ pc = "trained"
  /\ LET context_save_data == ContextSaveData(creator_styles, training_context)
     IN IF IsJsonSerializable(context_save_data)
        THEN /\ context_file' = WholeFile(JsonEncode(context_save_data))
             /\ pc' = "saved"
        ELSE /\ context_file' = PartialFile
             /\ pc' = "save_raised"
  /\ UNCHANGED <<generation_config, creator_styles, training_context, processed_transcripts, creator_data,
                 styles_checked>>
  /\ UNCHANGED generate_vars

\* load_training_context: False when the file cannot be read or parsed
LoadTrainingContext ==
  /\ pc \in {"saved", "save_raised"}
  /\ IF context_file.exists /\ context_file.complete
     THEN LET context_data == JsonDecode(context_file.document)
          IN /\ creator_styles' = GetOrEmpty(context_data, "creator_styles")
             /\ training_context' = GetOrEmpty(context_data, "training_context")
             /\ pc' = "loaded"
     ELSE /\ pc' = "load_failed"
          /\ UNCHANGED <<creator_styles, training_context>>
  /\ UNCHANGED <<generation_config, context_file, processed_transcripts, creator_data, styles_checked>>
  /\ UNCHANGED generate_vars

ContextNext == TrainOnTranscripts \/ SaveTrainingContext \/ LoadTrainingContext

ContextSpec == ContextInit /\ [][ContextNext]_vars

(***************************************************************************)
(* _build_generation_prompt beside a rebuild of the profiles.  The class   *)
(* takes no lock, so a rebuild on another thread can run between any two   *)
(* reads of self.creator_styles: the membership test and the lookup are    *)
(* two reads.  A rebuild binds self.creator_styles to a finished mapping   *)
(* in one assignment.                                                      *)
(***************************************************************************)

\* str(KeyError(key)), the text generate_script reports
KeyErrorMessage(key) == CASE key = "A" -> "'A'" [] key = "B" -> "'B'" [] OTHER -> "''"

\* a copy of the file written by a generator that had no profiles
EmptyContextFile == WholeFile(JsonEncode(ContextSaveData(EmptyDict, EmptyDict)))

\* the generator was trained before the request arrives
RaceInit ==
  /\ pc = "build_prompt"
  /\ processed_transcripts \in TranscriptCollections
  /\ creator_styles = _analyze_creator_styles(processed_transcripts)
  /\ training_context = _create_training_context(processed_transcripts)
  /\ context_file \in {NoFile, EmptyContextFile}
  /\ creator_data = None
  /\ styles_checked = None
  /\ generation_config = InitialGenerationConfig
  /\ request \in {[NoRequest EXCEPT !.topic = <<"a">>, !.length_minutes = 5,
                                     !.creator_style = c] : c \in Uploaders \cup {NoCreator}}
  /\ hard_word_cap = 0
  /\ response = NoResponse
  /\ script_text = None
  /\ accumulated_text = <<>>
  /\ calls = <<>>
  /\ result = NoResult

\* if creator_style and creator_style in self.creator_styles
CheckCreatorStyle ==
  /\ pc = "build_prompt"
  /\ styles_checked' = creator_styles
  /\ pc' = IF request.creator_style # NoCreator /\ HasKey(creator_styles, request.creator_style)
            THEN "style_known"
            ELSE "prompt_built"
  /\ UNCHANGED <<generation_config, creator_styles, training_context, context_file, processed_transcripts,
                 creator_data>>
  /\ UNCHANGED generate_vars

\* creator_data = self.creator_styles[creator_style]; a KeyError leaves
\* _build_generation_prompt and is caught by generate_script
ReadCreatorData ==
  /\ pc = "style_known"
  /\ IF HasKey(creator_styles, request.creator_style)
     THEN /\ creator_data' = creator_styles.val[request.creator_style]
          /\ pc' = "prompt_built"
          /\ UNCHANGED result
     ELSE /\ result' = Failure(KeyErrorMessage(request.creator_style), <<>>)
          /\ pc' = "done"
          /\ UNCHANGED creator_data
  /\ UNCHANGED <<generation_config, creator_styles, training_context, context_file, processed_transcripts,
                 styles_checked>>
  /\ UNCHANGED <<request, hard_word_cap, response, script_text, accumulated_text, calls>>

\* train_on_transcripts on another thread while the prompt is being built
RebuildByTraining ==
  /\ pc \in {"build_prompt", "style_known"}
  /\ \E transcripts \in TranscriptCollections :
       /\ processed_transcripts' = transcripts
       /\ creator_styles' = _analyze_creator_styles(transcripts)
       /\ training_context' = _create_training_context(transcripts)
  /\ UNCHANGED <<generation_config, pc, context_file, creator_data, styles_checked>>
  /\ UNCHANGED generate_vars

\* load_training_context on another thread while the prompt is being built
RebuildByLoading ==
  /\ pc \in {"build_prompt", "style_known"}
  /\ context_file.exists /\ context_file.complete
  /\ LET context_data == JsonDecode(context_file.document)
     IN /\ creator_styles' = GetOrEmpty(context_data, "creator_styles")
        /\ training_context' = GetOrEmpty(context_data, "training_context")
  /\ UNCHANGED <<generation_config, pc, context_file, processed_transcripts, creator_data, styles_checked>>
  /\ UNCHANGED generate_vars

RaceNext == CheckCreatorStyle \/ ReadCreatorData \/ RebuildByTraining \/ RebuildByLoading

RaceSpec == RaceInit /\ [][RaceNext]_vars

(***************************************************************************)
(* Properties                                                              *)
(***************************************************************************)

\* a call of the given kind has been issued
Issued(kind) == \E i \in DOMAIN calls : calls[i].kind = kind

\* C1: whenever generate_script returns success, the returned script has at
\* most hard_word_cap whitespace-delimited words.
C1_ScriptWithinCap ==
  (pc = "done" /\ result.success) => WordCount(result.script) <= hard_word_cap

\* a success whose text had more words than the cap before post-processing,
\* and whose script got the terminal period
C1_Witness ==
  /\ pc = "done"
  /\ result.success
  /\ WordCount(accumulated_text) > hard_word_cap
  /\ WordCount(result.script) = hard_word_cap
  /\ result.script # RStrip(_truncate_to_words_sentence_aware(
                              FormatSections(_clean_response_text(accumulated_text)),
                              hard_word_cap))

IsPrefix(p, q) == Len(p) <= Len(q) /\ SubSeq(q, 1, Len(p)) = p

\* C2: the words of the truncated text are the first words of the text, each
\* kept whole.
C2_TruncationKeepsWordsWhole ==
  pc = "truncated" => IsPrefix(Split(script_text), Split(accumulated_text))

\* a text cut at the word limit because its first words hold no boundary
C2_Witness ==
  /\ pc = "truncated"
  /\ hard_word_cap >= 1
  /\ WordCount(accumulated_text) > hard_word_cap
  /\ LastBoundaryIdx(JoinFirstWords(accumulated_text, hard_word_cap)) = -1
  /\ WordCount(script_text) = hard_word_cap

\* C3: the last character of a script returned with success is one of the
\* sentence terminators . ! ? | and the Devanagari full stop.
C3_ScriptEndsWithTerminator ==
  (pc = "done" /\ result.success) =>
     /\ result.script # <<>>
     /\ result.script[Len(result.script)] \in {".", "!", "?", "|", "DANDA"}

\* a success whose last line was promoted to a section header
C3_Witness ==
  /\ pc = "done"
  /\ result.success
  /\ Len(result.script) >= 2
  /\ result.script[Len(result.script) - 1] = "]"

\* the number of words of the text extracted from the first or fallback response
ExtractedWords == WordCount(script_text)

\* the text has been extracted and every continuation step is over
Evaluated == pc = "finalize" \/ (pc = "done" /\ result.success)

\* the request names no item count
NoItemCount == ExpectedItems(request) <= 0

\* C4 as stated: with no item count, a continuation call is issued if and only
\* if the extracted text has fewer than 0.85 * cap words.
C4_Original ==
  (Evaluated /\ NoItemCount) =>
     (Issued("continuation") <=> 100 * ExtractedWords < 85 * hard_word_cap)

\* C4, amended: with no item count, a continuation call is issued if and only
\* if the extracted text has fewer than int(0.85 * cap) words and at least 50
\* words of the cap remain.
C4_ContinuationIssuedIff ==
  (Evaluated /\ NoItemCount) =>
     (Issued("continuation") <=>
        /\ ExtractedWords < (85 * hard_word_cap) \div 100
        /\ hard_word_cap - ExtractedWords >= 50)

\* no item count, exactly 50 words of the cap left, and the call issued
C4_Witness ==
  /\ Evaluated
  /\ NoItemCount
  /\ hard_word_cap - ExtractedWords = 50
  /\ Issued("continuation")

\* fewer items than expected are detected in the text so far, and more than 60
\* words of the cap remain
ShortOfItems ==
  /\ ExpectedItems(request) > 0
  /\ _count_list_items(accumulated_text) < ExpectedItems(request)
  /\ hard_word_cap - WordCount(accumulated_text) > 60

\* C5 as stated: with an expected item count, the text is never passed to
\* post-processing while fewer items are detected and word budget remains.
C5_Original == pc = "finalize" => ~ShortOfItems

\* C5, amended: with an expected item count N, the text is passed to
\* post-processing with fewer than N items detected and more than 60 words of
\* budget left only after both the generic and the guided continuation call
\* have been issued.
C5_ShortOnlyAfterBothCalls ==
  (pc = "finalize" /\ ShortOfItems) => (Issued("continuation") /\ Issued("guided"))

\* the text reaches post-processing short of items after both calls
C5_Witness ==
  /\ pc = "finalize"
  /\ ShortOfItems
  /\ Issued("continuation")
  /\ Issued("guided")

\* the first response has fewer detected items than the request expects
FirstShortOfItems ==
  /\ Truthy(script_text)
  /\ ExpectedItems(request) > 0
  /\ _count_list_items(script_text) < ExpectedItems(request)

\* C6 as stated: when the first response yields k < N items, a guided
\* continuation naming items k+1 to N is issued before the result is finalized.
C6_Original ==
  (pc = "finalize" /\ FirstShortOfItems) =>
     \E i \in DOMAIN calls :
       /\ calls[i].kind = "guided"
       /\ calls[i].first_item = _count_list_items(script_text) + 1
       /\ calls[i].last_item = ExpectedItems(request)

\* C6, amended: when the first response yields k < N items, the generic
\* continuation call is issued first if at least 50 words of the cap remain;
\* a guided continuation is issued exactly when, after the generic step, the
\* detected count k' is still below N and more than 60 words remain, and its
\* prompt names items k'+1 to N.
C6_GuidedAfterGeneric ==
  /\ [](/\ (pc \in {"guided", "finalize"} /\ FirstShortOfItems
              /\ hard_word_cap - ExtractedWords >= 50) => Issued("continuation")
        /\ pc = "guided" => ShortOfItems
        /\ (pc = "finalize" /\ ShortOfItems) => Issued("guided"))
  /\ [][(pc = "guided" /\ pc' # "guided") =>
          /\ Len(calls') = Len(calls) + 1
          /\ calls'[Len(calls')].kind = "guided"
          /\ calls'[Len(calls')].first_item = _count_list_items(accumulated_text) + 1
          /\ calls'[Len(calls')].last_item = ExpectedItems(request)]_vars

\* five items expected, three in the first response, and a guided continuation
\* naming items 4 to 5 issued
C6_Witness ==
  /\ pc = "finalize"
  /\ ExpectedItems(request) = 5
  /\ _count_list_items(script_text) = 3
  /\ \E i \in DOMAIN calls :
       calls[i].kind = "guided" /\ calls[i].first_item = 4 /\ calls[i].last_item = 5

\* the first call returned a response with no candidates
FirstDeclined == calls # <<>> /\ ~calls[1].raised /\ calls[1].candidates = 0

\* the fallback calls issued so far
FallbackCalls == {i \in DOMAIN calls : calls[i].kind = "fallback"}

\* C7: when the first call returns no candidates, exactly one fallback call
\* with the same topic and duration is issued before any failure is returned;
\* and if the fallback response has no candidates or no text, the result is the
\* content-blocked failure.
C7_FallbackThenBlocked ==
  /\ (FirstDeclined /\ result # NoResult) =>
        /\ Cardinality(FallbackCalls) = 1
        /\ \A i \in FallbackCalls :
             /\ calls[i].topic = request.topic
             /\ calls[i].length_minutes = request.length_minutes
  /\ (/\ pc = "done"
      /\ FirstDeclined
      /\ \E i \in FallbackCalls : ~calls[i].raised
      /\ (response.candidates = <<>> \/ ~Truthy(response.text))) =>
        (~result.success /\ result.error = ContentBlockedError)

\* the response in hand carries a MEDIUM or HIGH rating
HasBlockedRating(resp) ==
  /\ resp.candidates # <<>>
  /\ \E i \in DOMAIN resp.candidates[1].safety_ratings :
       resp.candidates[1].safety_ratings[i].probability \in {"MEDIUM", "HIGH"}

\* its MEDIUM and HIGH ratings, in order
Offending(resp) ==
  LET ratings == resp.candidates[1].safety_ratings
      bad == SelectSeq(ratings, LAMBDA r : r.probability \in {"MEDIUM", "HIGH"})
  IN [i \in DOMAIN bad |-> <<bad[i].category, bad[i].probability>>]

\* the failure that names the offending categories of the response
NamesOffending ==
  /\ ~result.success
  /\ result.error = RatingBlockedError
  /\ result.blocked_categories = Offending(response)

\* C8 as stated: a response with a MEDIUM or HIGH rating always ends in the
\* content-blocked failure that names the offending categories.
C8_Original == (pc = "done" /\ HasBlockedRating(response)) => NamesOffending

\* C8, amended: a response with a MEDIUM or HIGH rating never ends in success;
\* the failure names the offending categories when the response is the first
\* response or a fallback response whose accessor yields text.
C8_RatedNeverSucceeds ==
  HasBlockedRating(response) =>
     /\ pc \in {"called", "done"}
     /\ pc = "done" =>
          /\ ~result.success
          /\ "error" \in result.keys
          /\ (FallbackCalls = {} \/ Truthy(response.text)) => NamesOffending

\* a rated response that also carries text, refused with its categories named
C8_Witness ==
  /\ pc = "done"
  /\ HasBlockedRating(response)
  /\ Truthy(response.text)
  /\ NamesOffending

\* C9 as stated: every external call that raises ends in a failure result
\* carrying the exception message.
C9_Original ==
  pc = "done" =>
     \A i \in DOMAIN calls :
       calls[i].raised => (~result.success /\ result.error = calls[i].message)

\* C9, amended: an initial or fallback call that raises ends the call at once
\* in a failure result carrying the exception message; a continuation call
\* (generic or guided) that raises leaves the accumulated text unchanged and
\* generation goes on to post-processing; a dictionary is returned on every path.
C9_FailuresCaught ==
  /\ [](/\ \A i \in DOMAIN calls :
             (calls[i].raised /\ calls[i].kind \in {"initial", "fallback"}) =>
                /\ i = Len(calls)
                /\ pc = "done"
                /\ ~result.success
                /\ result.error = calls[i].message
        /\ pc = "done" => {"success", "metadata"} \subseteq result.keys)
  /\ [][(/\ Len(calls') = Len(calls) + 1
         /\ calls'[Len(calls')].raised
         /\ calls'[Len(calls')].kind \in {"continuation", "guided"}) =>
          /\ accumulated_text' = accumulated_text
          /\ result' = NoResult
          /\ pc' \in {"guided", "finalize"}]_vars

\* a continuation call raised and the call still returned a script
C9_Witness ==
  /\ pc = "done"
  /\ result.success
  /\ \E i \in DOMAIN calls : calls[i].raised /\ calls[i].kind = "continuation"

\* the place of each kind of call in the fixed order
KindRank(kind) ==
  CASE kind = "initial" -> 1
    [] kind = "fallback" -> 2
    [] kind = "continuation" -> 3
    [] kind = "guided" -> 4

\* C10: the external calls occur in the order initial, fallback, generic
\* continuation, guided continuation, each at most once: at most two
\* continuation calls and at most four calls in all.
C10_CallOrder ==
  /\ pc # "initial" => (calls # <<>> /\ calls[1].kind = "initial")
  /\ \A i, j \in DOMAIN calls : i < j => KindRank(calls[i].kind) < KindRank(calls[j].kind)
  /\ Cardinality({i \in DOMAIN calls : calls[i].kind \in {"continuation", "guided"}}) <= 2
  /\ Len(calls) <= 4

\* all four kinds of call issued in one generate_script call
C10_Witness ==
  /\ pc = "done"
  /\ Len(calls) = 4
  /\ Issued("fallback")
  /\ Issued("guided")

(***************************************************************************)
(* Word-cap resolution                                                     *)
(***************************************************************************)

\* the request carries no override
NoOverride == ~request.requested_word_cap.some

\* the override the request carries
Override == request.requested_word_cap.val

\* min(2000, max(150, 150 * d)), written out
DefaultCapOf(d) ==
  IF 150 * d >= 2000 THEN 2000 ELSE IF 150 * d <= 150 THEN 150 ELSE 150 * d

\* max(200, min(5000, v)), written out
ClampedOverride(v) == IF v <= 200 THEN 200 ELSE IF v >= 5000 THEN 5000 ELSE v

\* C11: for a positive duration and no override the resolved cap is
\* min(2000, max(150, 150 * duration)); duration 5 gives 750, duration 20 gives 2000.
C11_DefaultCap ==
  (pc = "resolved" /\ request.length_minutes > 0 /\ NoOverride) =>
     /\ hard_word_cap = DefaultCapOf(request.length_minutes)
     /\ request.length_minutes = 5 => hard_word_cap = 750
     /\ request.length_minutes = 20 => hard_word_cap = 2000

\* duration 20 without an override, resolved to the ceiling
C11_Witness ==
  /\ pc = "resolved"
  /\ NoOverride
  /\ request.length_minutes = 20
  /\ hard_word_cap = 2000

\* C12 as stated: any supplied override, zero and negative values included, is
\* clamped to [200, 5000] whatever the duration.
C12_Original ==
  (pc = "resolved" /\ ~NoOverride) => hard_word_cap = ClampedOverride(Override)

\* C12, amended: a supplied override greater than zero is clamped to
\* [200, 5000] whatever the duration; an override of zero or less is treated as
\* no override, and the cap is the default one derived from the duration.
C12_PositiveOverrideClamped ==
  (pc = "resolved" /\ ~NoOverride) =>
     IF Override > 0
     THEN hard_word_cap = ClampedOverride(Override)
     ELSE hard_word_cap = DefaultCapOf(request.length_minutes)

\* an override of zero with duration 5, resolved to the default 750
C12_Witness ==
  /\ pc = "resolved"
  /\ ~NoOverride
  /\ Override = 0
  /\ request.length_minutes = 5
  /\ hard_word_cap = 750

\* C13 as stated: the resolved cap always lies in [200, 5000].
C13_Original ==
  (pc = "resolved" /\ request.length_minutes > 0) =>
     (200 <= hard_word_cap /\ hard_word_cap <= 5000)

\* C13, amended: the resolved cap lies in [150, 5000]: in [200, 5000] with an
\* override greater than zero, in [150, 2000] otherwise.
C13_CapInRange ==
  (pc = "resolved" /\ request.length_minutes > 0) =>
     IF ~NoOverride /\ Override > 0
     THEN 200 <= hard_word_cap /\ hard_word_cap <= 5000
     ELSE 150 <= hard_word_cap /\ hard_word_cap <= 2000

\* duration 1 without an override, resolved to 150
C13_Witness ==
  /\ pc = "resolved"
  /\ NoOverride
  /\ request.length_minutes = 1
  /\ hard_word_cap = 150

(***************************************************************************)
(* Result shapes                                                           *)
(***************************************************************************)

\* the result carries a script and a word count and no error
IsSuccessShape ==
  /\ result.success
  /\ "script" \in result.keys
  /\ "error" \notin result.keys
  /\ IsText(result.script)
  /\ result.script # <<>>
  /\ result.estimated_word_count >= 1
  /\ result.estimated_word_count = WordCount(result.script)

\* the result carries an error and no script
IsFailureShape ==
  /\ ~result.success
  /\ "error" \in result.keys
  /\ "script" \notin result.keys
  /\ result.script = None

\* C14: every result of generate_script is a success with a non-empty script,
\* a word count of at least 1 and no error, or a failure with an error and no
\* script.
C14_ResultShapes ==
  pc = "done" => (/\ "success" \in result.keys
                  /\ (IsSuccessShape \/ IsFailureShape))

\* a success whose text was only whitespace: the script is the appended period
C14_Witness ==
  /\ pc = "done"
  /\ result.success
  /\ WordCount(accumulated_text) = 0
  /\ result.script = <<".">>
  /\ result.estimated_word_count = 1

(***************************************************************************)
(* Cleaning                                                                *)
(***************************************************************************)

\* C15: cleaning is idempotent: cleaning a cleaned text gives the same text,
\* whatever line endings, zero-width characters and blank lines the text holds.
C15_CleanIdempotent == pc = "recleaned" => script_text = accumulated_text

(***************************************************************************)
(* The context snapshot                                                    *)
(***************************************************************************)

\* the creators of a profile mapping
Creators(styles) == DOMAIN styles.val

\* the averaged tone vector of a creator
ToneVector(styles, creator) == styles.val[creator].val["tone_profile"]

\* the same creators with the same tone vectors
SameProfiles(a, b) ==
  /\ Creators(a) = Creators(b)
  /\ \A c \in Creators(a) : ToneVector(a, c) = ToneVector(b, c)

\* C16: after training on a non-empty collection, saving the context and
\* loading the saved file both complete, and the loaded profiles have the
\* creators and the tone vectors of the trained ones.
C16_RoundTrip ==
  processed_transcripts # <<>> =>
     /\ pc # "save_raised"
     /\ pc # "load_failed"
     /\ pc = "loaded" =>
          SameProfiles(creator_styles, _analyze_creator_styles(processed_transcripts))

(***************************************************************************)
(* Parameters outside their constraints                                    *)
(***************************************************************************)

\* C17 as stated: a generate_script call with an empty topic issues no
\* external call and returns a failure.
C17_Original ==
  (pc = "done" /\ request.topic = <<>>) => (calls = <<>> /\ ~result.success)

\* C17, amended: generate_script validates none of its parameters: whatever
\* the topic, the empty one included, the first thing it does is the initial
\* external call carrying that topic and duration, and no result carries a
\* kind.
C17_NoValidation ==
  pc # "initial" =>
     /\ calls # <<>>
     /\ calls[1].kind = "initial"
     /\ calls[1].topic = request.topic
     /\ calls[1].length_minutes = request.length_minutes
     /\ "kind" \notin result.keys

\* a call with the empty topic that returned a script
C17_Witness ==
  /\ pc = "done"
  /\ request.topic = <<>>
  /\ calls # <<>>
  /\ result.success

\* C18: building the prompt beside a rebuild of the profiles never fails, and
\* the creator entry it uses comes from the mapping its membership test read
C18_ConsistentStyles ==
  /\ pc = "done" => result.success
  /\ (/\ pc = "prompt_built"
      /\ request.creator_style # NoCreator
      /\ HasKey(styles_checked, request.creator_style)) =>
        creator_data = styles_checked.val[request.creator_style]

\* the text ends, after its trailing whitespace, in one of the given marks
EndsInOneOf(text, marks) ==
  LET cleaned == RStrip(text)
  IN cleaned # <<>> /\ cleaned[Len(cleaned)] \in marks

\* the boundary step appended one period to the stripped text, or nothing
PeriodAppended == script_text = RStrip(accumulated_text) \o <<".">>

NothingAppended == script_text = RStrip(accumulated_text)

\* C19 as stated: a period is appended exactly when the stripped text does
\* not end in one of . ! ? | or the Devanagari full stop
C19_Original ==
  pc = "ensured" =>
    IF EndsInOneOf(accumulated_text, {".", "!", "?", "|", "DANDA"})
    THEN NothingAppended
    ELSE PeriodAppended

\* C19: a period is appended exactly when the stripped text does not end in
\* one of . ! ? or the Devanagari full stop; a text ending in | gets one
C19_PeriodUnlessSentenceEnd ==
  pc = "ensured" =>
    IF EndsInOneOf(accumulated_text, {".", "!", "?", "DANDA"})
    THEN NothingAppended
    ELSE PeriodAppended

C19_Witness ==
  /\ pc = "ensured"
  /\ EndsInOneOf(accumulated_text, {"|"})
  /\ accumulated_text[Len(accumulated_text)] = " "
  /\ PeriodAppended

\* generate_script stands behind its generic continuation step: the extracted
\* text needed more, and the guided continuation has not been called
AfterGenericStep ==
  /\ pc \in {"guided", "finalize"}
  /\ ~Issued("guided")
  /\ Truthy(script_text)
  /\ NeedsMore(script_text, hard_word_cap, ExpectedItems(request))

\* fewer items than expected are detected in the text so far
ItemShortfall ==
  /\ ExpectedItems(request) > 0
  /\ _count_list_items(accumulated_text) < ExpectedItems(request)

\* C20 as stated: behind the generic continuation step a guided continuation
\* call is issued exactly when the items fall short and at least 60 words of
\* the cap remain
C20_Original ==
  AfterGenericStep =>
    (pc = "guided" <=>
       (ItemShortfall /\ hard_word_cap - WordCount(accumulated_text) >= 60))

\* C20, amended: behind the generic continuation step a guided continuation
\* call is issued exactly when the items fall short and more than 60 words of
\* the cap remain
C20_GuidedIffOverMargin ==
  AfterGenericStep =>
    (pc = "guided" <=>
       (ItemShortfall /\ hard_word_cap - WordCount(accumulated_text) > 60))

\* a shortfall with 61 words left behind a generic continuation call, and the
\* guided call about to be issued
C20_Witness ==
  /\ AfterGenericStep
  /\ Issued("continuation")
  /\ ItemShortfall
  /\ hard_word_cap - WordCount(accumulated_text) = 61
  /\ pc = "guided"

\* C21: in every success result the reported word count is the number of
\* whitespace-delimited words of the returned script
C21_WordCountOfScript ==
  (pc = "done" /\ result.success) =>
     result.estimated_word_count = WordCount(result.script)

\* a success with a script shorter than the cap, which ends in the appended
\* period, reported with its own word count
C21_Witness ==
  /\ pc = "done"
  /\ result.success
  /\ WordCount(result.script) < hard_word_cap
  /\ result.script # _clean_response_text(accumulated_text)
  /\ result.estimated_word_count = WordCount(result.script)

\* the words among the first cap - 1 of the text that end in a boundary mark:
\* in the first cap words joined by blanks, these are followed by whitespace
MarkedWords(words, cap) ==
  {i \in 1..(cap - 1) : i <= Len(words) /\ IsBoundaryMark(words[i][Len(words[i])])}

CallOf(kind) == calls[CHOOSE i \in DOMAIN calls : calls[i].kind = kind]

\* a call of the given kind was issued and returned text
ReturnedText(kind) ==
  /\ Issued(kind)
  /\ ~CallOf(kind).raised
  /\ Truthy(CallOf(kind).response.text)

\* the old text without its trailing whitespace, a blank line and the new
\* text, truncated to the cap
Appended(old, new) ==
  _truncate_to_words_sentence_aware(RStrip(old) \o <<"\n", "\n">> \o new, hard_word_cap)

\* the accumulated text behind the generic continuation step
TextAfterGeneric ==
  IF ReturnedText("continuation")
  THEN Appended(script_text, Strip(CallOf("continuation").response.text))
  ELSE script_text

\* generate_script stands behind a continuation step, skipped or not
AfterContinuationStep ==
  \/ AfterGenericStep
  \/ pc = "finalize" /\ Issued("guided")

\* C23 as stated: the text a continuation call returns is appended as it is
\* behind a blank line and the whole truncated to the cap, and behind every
\* continuation step the accumulated text has at most cap words
C23_Original ==
  /\ (pc = "guided" /\ ReturnedText("continuation")) =>
        accumulated_text = Appended(script_text, CallOf("continuation").response.text)
  /\ (pc = "finalize" /\ ReturnedText("guided")) =>
        accumulated_text = Appended(TextAfterGeneric, CallOf("guided").response.text)
  /\ AfterContinuationStep => WordCount(accumulated_text) <= hard_word_cap

\* C23, amended: the text a continuation call returns is stripped of its
\* surrounding whitespace, appended behind a blank line and the whole
\* truncated to the cap, and behind every continuation step that issued its
\* call the accumulated text has at most cap words
C23_AppendedAndTruncated ==
  /\ (pc \in {"guided", "finalize"} /\ ~Issued("guided") /\ ReturnedText("continuation")) =>
        accumulated_text = Appended(script_text, Strip(CallOf("continuation").response.text))
  /\ (pc = "finalize" /\ ReturnedText("guided")) =>
        accumulated_text = Appended(TextAfterGeneric, Strip(CallOf("guided").response.text))
  /\ (AfterContinuationStep /\ (Issued("continuation") \/ Issued("guided"))) =>
        WordCount(accumulated_text) <= hard_word_cap

\* both continuation calls returned text, and the guided one was cut at the cap
C23_Witness ==
  /\ pc = "finalize"
  /\ ReturnedText("continuation")
  /\ ReturnedText("guided")
  /\ WordCount(RStrip(TextAfterGeneric) \o <<"\n", "\n">>
                 \o Strip(CallOf("guided").response.text)) > hard_word_cap
  /\ WordCount(accumulated_text) <= hard_word_cap

\* generate_script has returned, and its last initial or fallback call
\* returned the response in hand
ResponseInHand ==
  /\ pc = "done"
  /\ calls # <<>>
  /\ ~(IF FallbackCalls # {} THEN calls[2] ELSE calls[1]).raised

\* the candidates of the response with a text-bearing part
WithPartsText(resp) ==
  {i \in DOMAIN resp.candidates :
     \E j \in DOMAIN resp.candidates[i].parts : Truthy(resp.candidates[i].parts[j])}

\* the accessor, the parts of every candidate and the string form of the
\* response all yield no text
AllThreeEmpty(resp) ==
  /\ ~Truthy(resp.text)
  /\ WithPartsText(resp) = {}
  /\ ~Truthy(resp.str)

\* the text of the first of the three sources that yields one was extracted
FirstSourceUsed ==
  LET withText == WithPartsText(response)
      first == CHOOSE i \in withText : \A j \in withText : i <= j
  IN IF Truthy(response.text) THEN script_text = response.text
     ELSE IF withText # {}
     THEN script_text = JoinLines(SelectSeq(response.candidates[first].parts, Truthy))
     ELSE script_text = response.str

\* C24 as stated: the extracted text is that of the first source with text,
\* and generate_script returns the no-text failure exactly when the three
\* sources of the response yield nothing
C24_Original ==
  /\ (pc = "done" /\ result.success) => FirstSourceUsed
  /\ ResponseInHand =>
       ((~result.success /\ result.error = NoTextError) <=> AllThreeEmpty(response))

\* C24, amended: the extracted text is that of the first source with text,
\* and generate_script returns the no-text failure exactly when the three
\* sources yield nothing for a first response that has a candidate and
\* carries no MEDIUM or HIGH rating
C24_NoTextIffExtractionEmpty ==
  /\ (pc = "done" /\ result.success) => FirstSourceUsed
  /\ ResponseInHand =>
       ((~result.success /\ result.error = NoTextError) <=>
          /\ AllThreeEmpty(response)
          /\ FallbackCalls = {}
          /\ response.candidates # <<>>
          /\ ~HasBlockedRating(response))

\* a first response with a candidate and harmless ratings whose three sources
\* yield nothing, refused with the no-text failure
C24_Witness ==
  /\ ResponseInHand
  /\ AllThreeEmpty(response)
  /\ response.candidates # <<>>
  /\ result.error = NoTextError

\* the transcripts of the creator, and those of them in a language category
OwnTranscripts(creator) ==
  {i \in DOMAIN processed_transcripts : processed_transcripts[i].uploader = creator}

InCategory(creator, category) ==
  {i \in OwnTranscripts(creator) :
     LET mix == processed_transcripts[i].language_breakdown
     IN CASE category = "hindi_dominant" -> mix.hindi_ratio > 60
          [] category = "english_dominant" -> mix.hindi_ratio <= 60 /\ mix.english_ratio > 60
          [] OTHER -> mix.hindi_ratio <= 60 /\ mix.english_ratio <= 60}

\* the count of the category in the profile of the creator
CategoryCount(creator, category) ==
  creator_styles.val[creator].val["language_preferences"].val[category].val

\* C25: the creators of the profile are those of the transcripts, every
\* category count is the number of the creator's transcripts in that
\* category, and the three counts sum to the number of its transcripts
C25_LanguageCounts ==
  pc = "trained" =>
    /\ Creators(creator_styles) =
         {processed_transcripts[i].uploader : i \in DOMAIN processed_transcripts}
    /\ \A creator \in Creators(creator_styles) :
         /\ \A category \in {"hindi_dominant", "english_dominant", "balanced"} :
              CategoryCount(creator, category) = Cardinality(InCategory(creator, category))
         /\ CategoryCount(creator, "hindi_dominant") + CategoryCount(creator, "english_dominant")
              + CategoryCount(creator, "balanced") = Cardinality(OwnTranscripts(creator))

\* two creators, one of them with a transcript at the edge of the fraction
\* counted as balanced
C25_Witness ==
  /\ pc = "trained"
  /\ Cardinality(Creators(creator_styles)) = 2
  /\ \E creator \in Creators(creator_styles) : CategoryCount(creator, "balanced") = 1

\* the continuation call of the given kind returned text and the accumulated
\* text gained words by it; read once generate_script has returned
AddedWords(kind) ==
  /\ ReturnedText(kind)
  /\ IF kind = "continuation"
     THEN WordCount(TextAfterGeneric) > WordCount(script_text)
     ELSE WordCount(accumulated_text) > WordCount(TextAfterGeneric)

\* C26: no continuation response that carries a MEDIUM or HIGH rating adds
\* text to a script returned with success
C26_RatedTextNeverReturned ==
  (pc = "done" /\ result.success) =>
     \A kind \in {"continuation", "guided"} :
        (Issued(kind) /\ HasBlockedRating(CallOf(kind).response)) => ~AddedWords(kind)

\* C27: behind the generic continuation call the accumulated text has at least
\* as many detected items as the text extracted before it
C27_ItemCountNeverDrops ==
  (pc \in {"guided", "finalize"} /\ Issued("continuation") /\ ~Issued("guided")) =>
     _count_list_items(accumulated_text) >= _count_list_items(script_text)

\* C28: a continuation step that is skipped, whose call raises or whose call
\* returns no text leaves the accumulated text as it was and no result behind,
\* each step issues at most one call, and a generation that has reached its
\* continuation steps ends in success
C28_NoTextNoChange ==
  /\ (AfterGenericStep /\ ~ReturnedText("continuation")) =>
        (accumulated_text = script_text /\ result = NoResult)
  /\ (pc = "finalize" /\ Issued("guided") /\ ~ReturnedText("guided")) =>
        (accumulated_text = TextAfterGeneric /\ result = NoResult)
  /\ \A kind \in {"continuation", "guided"} :
        Cardinality({i \in DOMAIN calls : calls[i].kind = kind}) <= 1
  /\ (pc = "done" /\ (Issued("continuation") \/ Issued("guided"))) => result.success

\* the generic call raised, the guided call returned no text, and the text
\* went to post-processing as it was extracted
C28_Witness ==
  /\ pc = "done"
  /\ result.success
  /\ Issued("continuation") /\ CallOf("continuation").raised
  /\ Issued("guided") /\ ~CallOf("guided").raised /\ ~ReturnedText("guided")
  /\ accumulated_text = script_text

\* C29: generate_script leaves creator_styles, training_context and
\* generation_config of the generator as they were when it was called, on
\* every path, so a second call starts from the state the first started from
C29_GeneratorUnchanged ==
  /\ creator_styles = EmptyDict
  /\ training_context = EmptyDict
  /\ generation_config = InitialGenerationConfig
  /\ pc = "initial" => (request = NoRequest /\ calls = <<>> /\ result = NoResult)

\* a script returned by a call whose output budget differs from the one of
\* the generator's own configuration
C29_Witness ==
  /\ pc = "done"
  /\ result.success
  /\ CallGenerationConfig(generation_config, hard_word_cap) # generation_config
  /\ generation_config = InitialGenerationConfig

\* the text has more words than the cap and the last of its first cap words
\* ends in a boundary mark
SentenceEndsAtLimit ==
  LET words == Split(accumulated_text)
  IN /\ hard_word_cap >= 1
     /\ Len(words) > hard_word_cap
     /\ IsBoundaryMark(words[hard_word_cap][Len(words[hard_word_cap])])

\* C30 as stated: when the word at the limit ends in a boundary mark, all
\* cap words are kept
C30_Original ==
  (pc = "truncated" /\ SentenceEndsAtLimit) =>
     script_text = JoinFirstWords(accumulated_text, hard_word_cap)

\* C30, amended: when the word at the limit ends in a boundary mark, all cap
\* words are kept only if no earlier word of them ends in one; otherwise the
\* text is cut after the last such earlier word
C30_KeptUnlessEarlierBoundary ==
  (pc = "truncated" /\ SentenceEndsAtLimit) =>
     LET marked == MarkedWords(Split(accumulated_text), hard_word_cap)
         last == CHOOSE i \in marked : \A j \in marked : j <= i
     IN IF marked = {}
        THEN script_text = JoinFirstWords(accumulated_text, hard_word_cap)
        ELSE script_text = JoinFirstWords(accumulated_text, last)

\* a sentence that ends at the word limit, dropped for an earlier boundary
C30_Witness ==
  /\ pc = "truncated"
  /\ SentenceEndsAtLimit
  /\ MarkedWords(Split(accumulated_text), hard_word_cap) # {}
  /\ WordCount(script_text) < hard_word_cap

====
